---- MODULE Spec2Model ----
(***************************************************************************)
(* The Organization reconciliation engine of Swap-Provider-MongoDB:        *)
(* external.Observe / Create / Update / Delete of                          *)
(* internal/controller/organization/organization.go, over the MongoDB      *)
(* Atlas service client (makeRequest and its error classification) and the *)
(* AWS Secrets Manager client (PutSecret / DescribeSecret / DeleteSecret). *)
(*                                                                         *)
(* One declared Organization resource (cr) is reconciled against two       *)
(* remote systems: the set of organizations Atlas holds (orgs) and the     *)
(* secrets AWS Secrets Manager holds (secrets).  Every engine operation is *)
(* one action; the answers of the remote systems are chosen                *)
(* nondeterministically among those a server in that state can give.       *)
(***************************************************************************)
EXTENDS Integers, Sequences, FiniteSets, TLC

VARIABLES
    cr,       \* the Organization custom resource (metadata, spec, status)
    orgs,     \* identifiers of the organizations that exist in Atlas
    created,  \* number of organizations Atlas has created so far
    secrets,  \* AWS Secrets Manager: secret name -> stored record
    last,     \* the last engine invocation: operation, status before, calls, result
    scenario, \* position of the last invocation in the Create, Delete, Delete scenario
    req,      \* the last call to a service client and the response it got
    peer,     \* a second Organization resource, reconciled alongside cr (PairSpec)
    before,   \* orgs and secrets as they were before the last invocation (PairSpec)
    vpce,     \* the VPCEndpoint custom resource (VpcSpec)
    svcClient, \* the connectivity client of the VPCEndpoint external (VpcSpec)
    flight    \* the Create invocations in progress for cr (OverlapSpec)

vars == <<cr, orgs, created, secrets, last, scenario, req, peer, before,
          vpce, svcClient, flight>>

\* Bound of the model: how many organizations Atlas creates in one run.
MaxOrgs == 2

\* Bounds of the model: the HTTP status codes Atlas answers with.
MinStatus == 100

MaxStatus == 599

\* ------------------------------------------------------------------------
\* Constants of the controller

secretPrefix == "product/mongodb/"

FinalizerOrganizationCleanup == "organization.platform.allianz.io/cleanup"

errDeleteExternal == "cannot delete external organization"

\* A nil *string of the Go source.
NilString == "<nil>"

\* ------------------------------------------------------------------------
\* Errors.  An error value is its dynamic Go type, its message and the
\* messages errors.Wrap has put around it (innermost first).

nil == [type |-> "nil", msg |-> "", wraps |-> <<>>]

NewError(m) == [type |-> "errorString", msg |-> m, wraps |-> <<>>]

Wrap(err, m) == IF err = nil THEN nil ELSE [err EXCEPT !.wraps = Append(@, m)]

NotFoundError == [type |-> "*NotFoundError", msg |-> "404", wraps |-> <<>>]

ConflictError == [type |-> "*ConflictError", msg |-> "resource in conflict state", wraps |-> <<>>]

RetryableError(m) == [type |-> "*RetryableError", msg |-> m, wraps |-> <<>>]

APIError == [type |-> "Error", msg |-> "api error", wraps |-> <<>>]

AWSError(m) == [type |-> "awsError", msg |-> m, wraps |-> <<>>]

\* IsNotFoundError as a comparison with the package's ErrNotFound sentinel,
\* which makeRequest never returns.
IsNotFoundErrorSentinel(err) == err = NewError("not found")

\* err.(*NotFoundError): a type assertion on the value itself; a wrapped
\* error has another dynamic type.
IsNotFoundError(err) == err.type = "*NotFoundError" /\ err.wraps = <<>>

IsRetryableError(err) == err.type = "*RetryableError" /\ err.wraps = <<>>

IsConflictError(err) == err.type = "*ConflictError" /\ err.wraps = <<>>

\* ------------------------------------------------------------------------
\* The Atlas HTTP API as seen by makeRequest.  A response is a transport
\* failure, or a status code with a body that parses as JSON or does not.

TransportFailure == [transport |-> TRUE, status |-> 0, parsable |-> FALSE]

HTTP(status, parsable) == [transport |-> FALSE, status |-> status, parsable |-> parsable]

ErrorStatuses == {400, 409, 429, 500}

\* makeRequest without the 409 branch.
makeRequestNoConflict(resp, hasResult) ==
    IF resp.transport
    THEN RetryableError("HTTP request failed (network error)")
    ELSE IF resp.status >= 400
    THEN IF ~resp.parsable
         THEN IF resp.status >= 500
              THEN RetryableError("server error")
              ELSE NewError("HTTP status")
         ELSE IF resp.status = 404 THEN NotFoundError
         ELSE IF resp.status = 429 THEN RetryableError("rate limited")
         ELSE IF resp.status >= 500 THEN RetryableError("server error")
         ELSE APIError
    ELSE IF hasResult /\ resp.status # 204 /\ ~resp.parsable
    THEN Wrap(NewError("json"), "decode response")
    ELSE nil

\* makeRequest that looks at the status code before it parses the body.
makeRequestStatusFirst(resp, hasResult) ==
    IF resp.transport
    THEN RetryableError("HTTP request failed (network error)")
    ELSE IF resp.status >= 400
    THEN IF resp.status = 404 THEN NotFoundError
         ELSE IF resp.status = 409 THEN ConflictError
         ELSE IF resp.status = 429 THEN RetryableError("rate limited")
         ELSE IF resp.status >= 500 THEN RetryableError("server error")
         ELSE IF ~resp.parsable THEN NewError("HTTP status")
         ELSE APIError
    ELSE IF hasResult /\ resp.status # 204 /\ ~resp.parsable
    THEN Wrap(NewError("json"), "decode response")
    ELSE nil

\* What makeRequest returns for a response; hasResult: result != nil.
makeRequest(resp, hasResult) ==
    IF resp.transport
    THEN RetryableError("HTTP request failed (network error)")
    ELSE IF resp.status >= 400
    THEN IF ~resp.parsable
         THEN IF resp.status >= 500
              THEN RetryableError("server error")
              ELSE NewError("HTTP status")
         ELSE IF resp.status = 404 THEN NotFoundError
         ELSE IF resp.status = 409 THEN ConflictError
         ELSE IF resp.status = 429 THEN RetryableError("rate limited")
         ELSE IF resp.status >= 500 THEN RetryableError("server error")
         ELSE APIError
    ELSE IF hasResult /\ resp.status # 204 /\ ~resp.parsable
    THEN Wrap(NewError("json"), "decode response")
    ELSE nil

\* The responses Atlas can give to DELETE /orgs/{id}.
DeleteResponses(id) ==
    {TransportFailure}
    \cup {HTTP(s, p) : s \in ErrorStatuses, p \in BOOLEAN}
    \cup (IF id \in orgs
          THEN {HTTP(204, TRUE)}
          ELSE {HTTP(404, p) : p \in BOOLEAN})

\* The responses Atlas can give to POST /orgs.
CreateResponses ==
    {TransportFailure}
    \cup {HTTP(s, p) : s \in ErrorStatuses, p \in BOOLEAN}
    \cup {HTTP(201, p) : p \in BOOLEAN}

\* The identifier Atlas assigns to the n-th organization it creates.
OrgID(n) == "org-" \o ToString(n)

\* The API key pair Atlas issues with the organization id.
APIKeyPair(id) == [PublicKey |-> "pub-" \o id, PrivateKey |-> "priv-" \o id]

NoKeys == [PublicKey |-> "", PrivateKey |-> ""]

\* client.GetOrganization: the error it returns for a response.
GetOrganization(id, resp) == makeRequest(resp, TRUE)

\* Whether client.DeleteOrganization sends its request at all.
DeleteSendsRequest(id) == id # ""

\* client.DeleteOrganization: the error it returns for a response.
DeleteOrganization(id, resp) ==
    IF id = ""
    THEN NewError("organization id cannot be empty")
    ELSE makeRequest(resp, FALSE)

\* VerifyOrganizationDeletion that takes every failed Get as a deletion.
VerifyOrganizationDeletionLenient(id, resp) ==
    IF id = ""
    THEN NewError("organization id cannot be empty")
    ELSE IF makeRequest(resp, TRUE) # nil
    THEN nil
    ELSE NewError("organization still exists")

\* client.VerifyOrganizationDeletion: the error it returns for a response
\* to its Get of the organization.
VerifyOrganizationDeletion(id, resp) ==
    IF id = ""
    THEN NewError("organization id cannot be empty")
    ELSE LET err == makeRequest(resp, TRUE) IN
         IF IsNotFoundError(err) THEN nil
         ELSE IF err # nil
         THEN Wrap(err, "failed to verify organization deletion")
         ELSE NewError("organization still exists")

\* CreateOrganization without the checks of its input.
CreateOrganizationUnchecked(name, ownerID, resp) ==
    Wrap(makeRequest(resp, TRUE), "cannot create organization")

\* client.CreateOrganization: the error it returns for a response.
CreateOrganization(name, ownerID, resp) ==
    IF name = "" THEN NewError("organization name cannot be empty")
    ELSE IF ownerID = "" THEN NewError("organization ownerID cannot be empty")
    ELSE Wrap(makeRequest(resp, TRUE), "cannot create organization")

\* Whether client.CreateOrganization sends its request at all.
CreateSendsRequest(name, ownerID) == name # "" /\ ownerID # ""

\* ------------------------------------------------------------------------
\* AWS Secrets Manager

ARN(secretName) == "arn:aws:secretsmanager:" \o secretName

SecretRecord(creds, orgID, kmsKeyID) ==
    [SecretString |-> creds, OrgID |-> orgID, KmsKeyId |-> kmsKeyID]

\* How Secrets Manager answers one client call: it serves it, or the first
\* request of the call fails, or (PutSecret only) the UpdateSecret that
\* follows a ResourceExistsException fails.
AWSAnswers == {"ok", "error", "updateError"}

\* PutSecret that leaves an existing secret as it is.
PutSecretKeepsExisting(store, secretName, creds, orgID, kmsKeyID, answer) ==
    IF answer = "error"
    THEN [secrets |-> store, arn |-> "",
          err |-> Wrap(AWSError("InternalServiceError"), "cannot create AWS secret")]
    ELSE IF secretName \notin DOMAIN store
    THEN [secrets |-> [n \in DOMAIN store \cup {secretName} |->
                          IF n = secretName
                          THEN SecretRecord(creds, orgID, kmsKeyID)
                          ELSE store[n]],
          arn |-> ARN(secretName),
          err |-> nil]
    ELSE [secrets |-> store, arn |-> ARN(secretName), err |-> nil]

\* Client.PutSecret: CreateSecret, and UpdateSecret when the secret exists.
\* The result: the store afterwards, the ARN returned and the error.
PutSecret(store, secretName, creds, orgID, kmsKeyID, answer) ==
    IF answer = "error"
    THEN [secrets |-> store, arn |-> "",
          err |-> Wrap(AWSError("InternalServiceError"), "cannot create AWS secret")]
    ELSE IF secretName \notin DOMAIN store
    THEN [secrets |-> [n \in DOMAIN store \cup {secretName} |->
                          IF n = secretName
                          THEN SecretRecord(creds, orgID, kmsKeyID)
                          ELSE store[n]],
          arn |-> ARN(secretName),
          err |-> nil]
    ELSE IF answer = "updateError"
    THEN [secrets |-> store, arn |-> "",
          err |-> Wrap(AWSError("InternalServiceError"),
                       "cannot update existing AWS secret")]
    ELSE [secrets |-> [store EXCEPT ![secretName] =
                          [@ EXCEPT !.SecretString = creds,
                                    !.KmsKeyId = IF kmsKeyID # NilString
                                                 THEN kmsKeyID ELSE @]],
          arn |-> ARN(secretName),
          err |-> nil]

\* Client.DescribeSecret: the ARN of the secret, or the SDK's error.
DescribeSecret(store, secretName, answer) ==
    IF answer # "ok"
    THEN [arn |-> "", err |-> AWSError("InternalServiceError")]
    ELSE IF secretName \notin DOMAIN store
    THEN [arn |-> "", err |-> AWSError("ResourceNotFoundException")]
    ELSE [arn |-> ARN(secretName), err |-> nil]

\* DeleteSecret that drops the SDK's error.
DeleteSecretSwallowed(store, secretName, forceDelete, answer) ==
    IF answer # "ok" \/ (secretName \notin DOMAIN store /\ ~forceDelete)
    THEN [secrets |-> store, err |-> nil]
    ELSE [secrets |-> [n \in DOMAIN store \ {secretName} |-> store[n]],
          err |-> nil]

\* Client.DeleteSecret: a served delete leaves no secret under the name.
DeleteSecret(store, secretName, forceDelete, answer) ==
    IF answer # "ok"
    THEN [secrets |-> store,
          err |-> Wrap(AWSError("InternalServiceError"),
                       "cannot delete secret from AWS Secrets Manager")]
    ELSE IF secretName \notin DOMAIN store /\ ~forceDelete
    THEN [secrets |-> store,
          err |-> Wrap(AWSError("ResourceNotFoundException"),
                       "cannot delete secret from AWS Secrets Manager")]
    ELSE [secrets |-> [n \in DOMAIN store \ {secretName} |-> store[n]],
          err |-> nil]

\* ------------------------------------------------------------------------
\* The custom resource

\* finalSecretName that derives the name from the organization identifier
\* once the external name is set.
finalSecretNameByID(r) ==
    IF r.SecretName # NilString /\ r.SecretName # ""
    THEN secretPrefix \o r.SecretName
    ELSE IF r.ExternalName # ""
    THEN secretPrefix \o r.ExternalName
    ELSE secretPrefix \o r.Name

\* finalSecretName that takes the name recorded in the status as the
\* operator's choice.
finalSecretNameFromStatus(r) ==
    IF r.StatusSecretName # ""
    THEN secretPrefix \o r.StatusSecretName
    ELSE IF r.SecretName # NilString /\ r.SecretName # ""
    THEN secretPrefix \o r.SecretName
    ELSE secretPrefix \o r.Name

\* finalSecretName that gives every resource the same key.
finalSecretNameShared(r) == secretPrefix \o "credentials"

\* derive final secret name
finalSecretName(r) ==
    IF r.SecretName # NilString /\ r.SecretName # ""
    THEN secretPrefix \o r.SecretName
    ELSE secretPrefix \o r.Name

FinalizerExists(r, f) == f \in r.Finalizers

\* AddFinalizer that loses the token.
AddFinalizerLost(r, f) == r

AddFinalizer(r, f) == [r EXCEPT !.Finalizers = @ \cup {f}]

\* RemoveFinalizer that leaves the token.
RemoveFinalizerLost(r, f) == r

RemoveFinalizer(r, f) == [r EXCEPT !.Finalizers = @ \ {f}]

GetExternalName(r) == r.ExternalName

\* SetExternalName whose write is lost.
SetExternalNameLost(r, id) == r

SetExternalName(r, id) == [r EXCEPT !.ExternalName = id]

\* SetReady that takes the condition back when it is already set.
SetReadyFlapping(r, c) == [r EXCEPT !.Ready = IF @ = c THEN "" ELSE c]

\* cr.SetConditions: Available/Deleting are Ready conditions,
\* ReconcileSuccess/ReconcileError are Synced conditions.
SetReady(r, c) == [r EXCEPT !.Ready = c]

SetSynced(r, c) == [r EXCEPT !.Synced = c]

NewResource(secretName, ownerID, kmsKeyID) ==
    [Name |-> "acme",
     OwnerID |-> ownerID,
     Description |-> "x",
     SecretName |-> secretName,
     KMSKeyID |-> kmsKeyID,
     ExternalName |-> "",
     Finalizers |-> {},
     DeletionTimestamp |-> FALSE,
     OrgID |-> "",
     OrgName |-> "",
     StatusSecretName |-> "",
     SecretARN |-> "",
     Ready |-> "",
     Synced |-> ""]

\* ------------------------------------------------------------------------
\* Records of an invocation

Call(api, arg, err) == [api |-> api, arg |-> arg, err |-> err]

NoConnectionDetails == [publicKey |-> "", privateKey |-> "", secretARN |-> ""]

Result(err, exists, upToDate, conn) ==
    [err |-> err, ResourceExists |-> exists, ResourceUpToDate |-> upToDate,
     ConnectionDetails |-> conn]

Invocation(op, pre, calls, ret) ==
    [op |-> op, pre |-> pre, calls |-> calls, ret |-> ret]

\* Position in the end-to-end scenarios: "created" after a successful Create
\* on a resource with no external name and no finalizer, "recreated" after
\* any other successful Create, "firstDelete" and "secondDelete" after the
\* Delete invocations that follow "created" directly, "observed" after the
\* Observe that follows a successful Create directly, "none" otherwise.
Advance(sc, op, pre, ret) ==
    IF op = "Create" /\ ret.err = nil /\ pre.ExternalName = "" /\ pre.Finalizers = {}
    THEN "created"
    ELSE IF op = "Create" /\ ret.err = nil THEN "recreated"
    ELSE IF op = "Delete" /\ sc = "created" THEN "firstDelete"
    ELSE IF op = "Delete" /\ sc = "firstDelete" THEN "secondDelete"
    ELSE IF op = "Observe" /\ sc \in {"created", "recreated"} THEN "observed"
    ELSE "none"

\* A second resource, with another name.
NewPeer(secretName) ==
    [NewResource(secretName, "u-1", NilString) EXCEPT !.Name = "beta"]

\* The two remote systems at one moment.
Remote(o, st) == [orgs |-> o, secrets |-> st]

\* One call to the Atlas service client: the operation, its arguments, the
\* response of Atlas, whether the HTTP request was sent, what makeRequest
\* returned (raw) and what the operation returned (err).
ClientCall(op, args, resp, sent, raw, err) ==
    [op |-> op, args |-> args, resp |-> resp, sent |-> sent, raw |-> raw, err |-> err]

NoRequest == ClientCall("none", <<>>, TransportFailure, FALSE, nil, nil)

\* A VPCEndpoint resource as the control plane hands it over first: the
\* external name annotation, the observed status and the Ready condition.
NewVPCEndpoint ==
    [Name |-> "endpoint",
     AccountID |-> "111122223333",
     Region |-> "eu-central-1",
     ExternalName |-> "",
     VpcEndpointID |-> "",
     State |-> "",
     Ready |-> "",
     ReadyMessage |-> "",
     DeletionTimestamp |-> FALSE]

\* NewConnectivityClient
NewConnectivityClient(baseURL, apiKey) == [BaseURL |-> baseURL, APIKey |-> apiKey]

\* The engine invocations that may be in progress for cr at the same time.
Invocations == {"a", "b"}

\* One Create invocation in progress: where it stands (pc), its copy of the
\* resource (r), the identifier of the organization it has created (id), the
\* calls it has issued and what it is about to return.
Flight(pc, r, id, calls, ret) ==
    [pc |-> pc, r |-> r, id |-> id, calls |-> calls, ret |-> ret]

NoFlight ==
    [i \in Invocations |->
        Flight("idle", NewResource(NilString, "", NilString), "", <<>>,
               Result(nil, FALSE, FALSE, NoConnectionDetails))]

Init ==
    /\ \E sn \in {NilString, "", "custom"}, owner \in {"u-1", ""},
          kms \in {NilString, "kms-1"} :
          cr = NewResource(sn, owner, kms)
    /\ orgs = {}
    /\ created = 0
    /\ secrets = [n \in {} |-> SecretRecord(NoKeys, "", NilString)]
    /\ last = Invocation("none", NewResource(NilString, "", NilString), <<>>,
                         Result(nil, FALSE, FALSE, NoConnectionDetails))
    /\ scenario = "none"
    /\ req = NoRequest
    /\ peer = NewPeer(NilString)
    /\ before = Remote(orgs, secrets)
    /\ vpce = NewVPCEndpoint
    /\ svcClient = NewConnectivityClient("", "key")
    /\ flight = NoFlight

\* What an engine operation leaves behind: the resource, the two remote
\* systems, the remote calls it issued in order, and what it returned.
Outcome(r, o, n, st, calls, ret) ==
    [cr |-> r, orgs |-> o, created |-> n, secrets |-> st, calls |-> calls, ret |-> ret]

\* ObserveSecret that returns the error of the metadata read.
ObserveSecretStrict(r1, awsAnswer) ==
    LET secretName == finalSecretName(r1)
        desc == DescribeSecret(secrets, secretName, awsAnswer)
        c1 == Call("DescribeSecret", secretName, desc.err)
    IN IF desc.err # nil
       THEN Outcome(r1, orgs, created, secrets, <<c1>>,
                    Result(desc.err, FALSE, FALSE, NoConnectionDetails))
       ELSE Outcome(SetReady([r1 EXCEPT !.StatusSecretName = secretName,
                                        !.SecretARN = desc.arn],
                             "Available"),
                    orgs, created, secrets, <<c1>>,
                    Result(nil, TRUE, TRUE, NoConnectionDetails))

\* external.Observe, from "refresh secret metadata" on: r1 has a non-empty
\* external name and is not marked for deletion.
ObserveSecret(r1, awsAnswer) ==
    LET secretName == finalSecretName(r1)
        desc == DescribeSecret(secrets, secretName, awsAnswer)
        c1 == Call("DescribeSecret", secretName, desc.err)
    IN IF desc.err # nil
       THEN Outcome(SetReady(r1, "Available"), orgs, created, secrets, <<c1>>,
                    Result(nil, TRUE, TRUE, NoConnectionDetails))
       ELSE Outcome(SetReady([r1 EXCEPT !.StatusSecretName = secretName,
                                        !.SecretARN = desc.arn],
                             "Available"),
                    orgs, created, secrets, <<c1>>,
                    Result(nil, TRUE, TRUE, NoConnectionDetails))

\* Observe without the "not yet created" fast path.
ObserveRunNoFastPath(r, awsAnswer) ==
    LET r1 == [r EXCEPT !.OrgID = GetExternalName(r)] IN
    IF r.DeletionTimestamp
    THEN Outcome(SetReady(r1, "Deleting"), orgs, created, secrets, <<>>,
                 Result(nil, TRUE, FALSE, NoConnectionDetails))
    ELSE ObserveSecret(r1, awsAnswer)

\* Observe that refreshes the secret metadata of a resource marked for
\* deletion as well.
ObserveRunDescribesWhileDeleting(r, awsAnswer) ==
    LET orgID == GetExternalName(r) IN
    IF orgID = ""
    THEN Outcome(r, orgs, created, secrets, <<>>,
                 Result(nil, FALSE, FALSE, NoConnectionDetails))
    ELSE ObserveSecret([r EXCEPT !.OrgID = orgID], awsAnswer)

\* external.Observe
ObserveRun(r, awsAnswer) ==
    LET orgID == GetExternalName(r) IN
    IF orgID = ""
    THEN Outcome(r, orgs, created, secrets, <<>>,
                 Result(nil, FALSE, FALSE, NoConnectionDetails))
    ELSE LET r1 == [r EXCEPT !.OrgID = orgID] IN
         IF r.DeletionTimestamp
         THEN Outcome(SetReady(r1, "Deleting"), orgs, created, secrets, <<>>,
                      Result(nil, TRUE, FALSE, NoConnectionDetails))
         ELSE ObserveSecret(r1, awsAnswer)

\* external.Create, after the organization was created with identifier id:
\* record it, store the key pair, record where it is stored.
CreateStore(r, id, orgs1, created1, c1, awsAnswer) ==
    LET r1 == [SetExternalName(r, id) EXCEPT !.OrgID = id, !.OrgName = r.Name]
        secretName == finalSecretName(r1)
        apiKey == APIKeyPair(id)
        put == PutSecret(secrets, secretName, apiKey, id, r1.KMSKeyID, awsAnswer)
        c2 == Call("PutSecret", secretName, put.err)
    IN IF put.err # nil
       THEN Outcome(r1, orgs1, created1, put.secrets, <<c1, c2>>,
                    Result(Wrap(put.err, "failed to put secret"), FALSE, FALSE,
                           NoConnectionDetails))
       ELSE Outcome([r1 EXCEPT !.StatusSecretName = secretName,
                               !.SecretARN = put.arn],
                    orgs1, created1, put.secrets, <<c1, c2>>,
                    Result(nil, FALSE, FALSE,
                           [publicKey |-> apiKey.PublicKey,
                            privateKey |-> apiKey.PrivateKey,
                            secretARN |-> put.arn]))

\* Create that records the organization name before looking at the error.
CreateRunEager(r, resp, awsAnswer) ==
    LET err == CreateOrganization(r.Name, r.OwnerID, resp)
        served == CreateSendsRequest(r.Name, r.OwnerID)
                  /\ ~resp.transport /\ resp.status = 201
        id == OrgID(created + 1)
        orgs1 == IF served THEN orgs \cup {id} ELSE orgs
        created1 == IF served THEN created + 1 ELSE created
        c1 == Call("CreateOrganization", r.Name, err)
    IN IF err # nil
       THEN Outcome([r EXCEPT !.OrgName = r.Name], orgs1, created1, secrets, <<c1>>,
                    Result(err, FALSE, FALSE, NoConnectionDetails))
       ELSE CreateStore(r, id, orgs1, created1, c1, awsAnswer)

\* external.Create
CreateRun(r, resp, awsAnswer) ==
    LET err == CreateOrganization(r.Name, r.OwnerID, resp)
        served == CreateSendsRequest(r.Name, r.OwnerID)
                  /\ ~resp.transport /\ resp.status = 201
        id == OrgID(created + 1)
        orgs1 == IF served THEN orgs \cup {id} ELSE orgs
        created1 == IF served THEN created + 1 ELSE created
        c1 == Call("CreateOrganization", r.Name, err)
    IN IF err # nil
       THEN Outcome(r, orgs1, created1, secrets, <<c1>>,
                    Result(err, FALSE, FALSE, NoConnectionDetails))
       ELSE CreateStore(r, id, orgs1, created1, c1, awsAnswer)

\* Update that reads the stored key pair back and returns it.
UpdateRunReadsSecret(r) ==
    Outcome(r, orgs, created, secrets,
            <<Call("GetSecret", finalSecretName(r), nil)>>,
            Result(nil, FALSE, FALSE,
                   [publicKey |-> APIKeyPair(GetExternalName(r)).PublicKey,
                    privateKey |-> APIKeyPair(GetExternalName(r)).PrivateKey,
                    secretARN |-> ""]))

\* external.Update
UpdateRun(r) ==
    Outcome(r, orgs, created, secrets, <<>>,
            Result(nil, FALSE, FALSE, NoConnectionDetails))

\* DeleteCleanup that lets a failed secret delete block the finalizer removal.
DeleteCleanupBlocking(r, orgs1, c1, awsAnswer) ==
    LET secretName == finalSecretName(r)
        del == DeleteSecret(secrets, secretName, TRUE, awsAnswer)
        c2 == Call("DeleteSecret", secretName, del.err)
    IN IF del.err # nil
       THEN Outcome(SetSynced(r, "ReconcileError"), orgs1, created, del.secrets,
                    <<c1, c2>>,
                    Result(del.err, FALSE, FALSE, NoConnectionDetails))
       ELSE Outcome(SetSynced(RemoveFinalizer(r, FinalizerOrganizationCleanup),
                              "ReconcileSuccess"),
                    orgs1, created, del.secrets, <<c1, c2>>,
                    Result(nil, FALSE, FALSE, NoConnectionDetails))

\* DeleteCleanup that deletes the secret before the organization delete.
DeleteCleanupSecretFirst(r, orgs1, c1, awsAnswer) ==
    LET secretName == finalSecretName(r)
        del == DeleteSecret(secrets, secretName, TRUE, awsAnswer)
        c2 == Call("DeleteSecret", secretName, del.err)
    IN Outcome(SetSynced(RemoveFinalizer(r, FinalizerOrganizationCleanup),
                         "ReconcileSuccess"),
               orgs1, created, del.secrets, <<c2, c1>>,
               Result(nil, FALSE, FALSE, NoConnectionDetails))

\* external.Delete, after the organization delete succeeded or was
\* NotFound: delete the secret, whatever that returns remove the finalizer.
DeleteCleanup(r, orgs1, c1, awsAnswer) ==
    LET secretName == finalSecretName(r)
        del == DeleteSecret(secrets, secretName, TRUE, awsAnswer)
        c2 == Call("DeleteSecret", secretName, del.err)
    IN Outcome(SetSynced(RemoveFinalizer(r, FinalizerOrganizationCleanup),
                         "ReconcileSuccess"),
               orgs1, created, del.secrets, <<c1, c2>>,
               Result(nil, FALSE, FALSE, NoConnectionDetails))

\* DeleteFailure that gives up the finalizer and goes on to the secret.
DeleteFailureCleans(r, orgs1, c1, err) ==
    Outcome(SetSynced(RemoveFinalizer(r, FinalizerOrganizationCleanup), "ReconcileError"),
            orgs1, created, secrets,
            <<c1, Call("DeleteSecret", finalSecretName(r), nil)>>,
            Result(Wrap(err, errDeleteExternal), FALSE, FALSE, NoConnectionDetails))

\* DeleteFailure that calls the Organization API again on a retryable error.
DeleteFailureRetries(r, orgs1, c1, err) ==
    Outcome(SetSynced(r, "ReconcileError"), orgs1, created, secrets,
            IF IsRetryableError(err) THEN <<c1, c1>> ELSE <<c1>>,
            Result(Wrap(err, errDeleteExternal), FALSE, FALSE, NoConnectionDetails))

\* external.Delete, "Handle other failures".
DeleteFailure(r, orgs1, c1, err) ==
    Outcome(SetSynced(r, "ReconcileError"), orgs1, created, secrets, <<c1>>,
            Result(Wrap(err, errDeleteExternal), FALSE, FALSE, NoConnectionDetails))

\* Delete that treats a retryable error of the Organization API as NotFound.
DeleteRunCleansOnRetryable(r, resp, awsAnswer) ==
    LET orgID == GetExternalName(r) IN
    IF orgID = ""
    THEN Outcome(r, orgs, created, secrets, <<>>,
                 Result(nil, FALSE, FALSE, NoConnectionDetails))
    ELSE IF ~FinalizerExists(r, FinalizerOrganizationCleanup)
    THEN Outcome(AddFinalizer(r, FinalizerOrganizationCleanup), orgs, created, secrets,
                 <<>>, Result(nil, FALSE, FALSE, NoConnectionDetails))
    ELSE LET err == DeleteOrganization(orgID, resp)
             orgs1 == IF ~resp.transport /\ resp.status = 204
                      THEN orgs \ {orgID} ELSE orgs
             c1 == Call("DeleteOrganization", orgID, err)
         IN IF IsNotFoundError(err) \/ IsRetryableError(err)
            THEN DeleteCleanup(r, orgs1, c1, awsAnswer)
            ELSE IF err # nil
            THEN DeleteFailure(r, orgs1, c1, err)
            ELSE DeleteCleanup(r, orgs1, c1, awsAnswer)

\* Delete that records the finalizer before it looks at the external name.
DeleteRunFinalizerFirst(r, resp, awsAnswer) ==
    IF ~FinalizerExists(r, FinalizerOrganizationCleanup)
    THEN Outcome(AddFinalizer(r, FinalizerOrganizationCleanup), orgs, created, secrets,
                 <<>>, Result(nil, FALSE, FALSE, NoConnectionDetails))
    ELSE LET orgID == GetExternalName(r)
             err == DeleteOrganization(orgID, resp)
             orgs1 == IF ~resp.transport /\ resp.status = 204
                      THEN orgs \ {orgID} ELSE orgs
             c1 == Call("DeleteOrganization", orgID, err)
         IN IF IsNotFoundError(err)
            THEN DeleteCleanup(r, orgs1, c1, awsAnswer)
            ELSE IF err # nil
            THEN DeleteFailure(r, orgs1, c1, err)
            ELSE DeleteCleanup(r, orgs1, c1, awsAnswer)

\* external.Delete
DeleteRun(r, resp, awsAnswer) ==
    LET orgID == GetExternalName(r) IN
    IF orgID = ""
    THEN Outcome(r, orgs, created, secrets, <<>>,
                 Result(nil, FALSE, FALSE, NoConnectionDetails))
    ELSE IF ~FinalizerExists(r, FinalizerOrganizationCleanup)
    THEN Outcome(AddFinalizer(r, FinalizerOrganizationCleanup), orgs, created, secrets,
                 <<>>, Result(nil, FALSE, FALSE, NoConnectionDetails))
    ELSE LET err == DeleteOrganization(orgID, resp)
             orgs1 == IF ~resp.transport /\ resp.status = 204
                      THEN orgs \ {orgID} ELSE orgs
             c1 == Call("DeleteOrganization", orgID, err)
         IN IF IsNotFoundError(err)
            THEN DeleteCleanup(r, orgs1, c1, awsAnswer)
            ELSE IF err # nil
            THEN DeleteFailure(r, orgs1, c1, err)
            ELSE DeleteCleanup(r, orgs1, c1, awsAnswer)

\* An engine operation op has run with outcome out.
Invoke(op, out) ==
    /\ cr' = out.cr
    /\ orgs' = out.orgs
    /\ created' = out.created
    /\ secrets' = out.secrets
    /\ last' = Invocation(op, cr, out.calls, out.ret)
    /\ scenario' = Advance(scenario, op, cr, out.ret)
    /\ UNCHANGED <<req, peer, before,
                 vpce, svcClient, flight>>

\* The control plane marks the resource for deletion.
RequestDeletion ==
    /\ ~cr.DeletionTimestamp
    /\ cr' = [cr EXCEPT !.DeletionTimestamp = TRUE]
    /\ UNCHANGED <<orgs, created, secrets, last, scenario, req, peer, before,
                 vpce, svcClient, flight>>

Observe ==
    \E awsAnswer \in AWSAnswers : Invoke("Observe", ObserveRun(cr, awsAnswer))

Create ==
    /\ created < MaxOrgs
    /\ \E resp \in CreateResponses, awsAnswer \in AWSAnswers :
          Invoke("Create", CreateRun(cr, resp, awsAnswer))

Update ==
    Invoke("Update", UpdateRun(cr))

Delete ==
    \E resp \in DeleteResponses(GetExternalName(cr)), awsAnswer \in AWSAnswers :
        Invoke("Delete", DeleteRun(cr, resp, awsAnswer))

Next ==
    \/ RequestDeletion
    \/ Observe
    \/ Create
    \/ Update
    \/ Delete

Spec == Init /\ [][Next]_vars

\* ------------------------------------------------------------------------
\* The Atlas service client on its own: each of its operations is called
\* with every argument and every response of Atlas, one call at a time.

\* Every way Atlas can answer one HTTP request.
Responses ==
    {TransportFailure} \cup {HTTP(s, p) : s \in MinStatus..MaxStatus, p \in BOOLEAN}

ClientInit ==
    /\ cr = NewResource(NilString, "u-1", NilString)
    /\ orgs = {}
    /\ created = 0
    /\ secrets = [n \in {} |-> SecretRecord(NoKeys, "", NilString)]
    /\ last = Invocation("none", NewResource(NilString, "", NilString), <<>>,
                         Result(nil, FALSE, FALSE, NoConnectionDetails))
    /\ scenario = "none"
    /\ req = NoRequest
    /\ peer = NewPeer(NilString)
    /\ before = Remote(orgs, secrets)
    /\ vpce = NewVPCEndpoint
    /\ svcClient = NewConnectivityClient("", "key")
    /\ flight = NoFlight

ClientCreateOrganization ==
    /\ req.op = "none"
    /\ \E name \in {"", "acme"}, ownerID \in {"", "u-1"}, resp \in Responses :
          LET sent == CreateSendsRequest(name, ownerID) IN
          req' = ClientCall("CreateOrganization", <<name, ownerID>>, resp, sent,
                            IF sent THEN makeRequest(resp, TRUE) ELSE nil,
                            CreateOrganization(name, ownerID, resp))
    /\ UNCHANGED <<cr, orgs, created, secrets, last, scenario, peer, before,
                 vpce, svcClient, flight>>

ClientGetOrganization ==
    /\ req.op = "none"
    /\ \E id \in {"org-1"}, resp \in Responses :
          req' = ClientCall("GetOrganization", <<id>>, resp, TRUE,
                            makeRequest(resp, TRUE), GetOrganization(id, resp))
    /\ UNCHANGED <<cr, orgs, created, secrets, last, scenario, peer, before,
                 vpce, svcClient, flight>>

ClientDeleteOrganization ==
    /\ req.op = "none"
    /\ \E id \in {"", "org-1"}, resp \in Responses :
          LET sent == DeleteSendsRequest(id) IN
          req' = ClientCall("DeleteOrganization", <<id>>, resp, sent,
                            IF sent THEN makeRequest(resp, FALSE) ELSE nil,
                            DeleteOrganization(id, resp))
    /\ UNCHANGED <<cr, orgs, created, secrets, last, scenario, peer, before,
                 vpce, svcClient, flight>>

ClientVerifyOrganizationDeletion ==
    /\ req.op = "none"
    /\ \E id \in {"", "org-1"}, resp \in Responses :
          LET sent == DeleteSendsRequest(id) IN
          req' = ClientCall("VerifyOrganizationDeletion", <<id>>, resp, sent,
                            IF sent THEN makeRequest(resp, TRUE) ELSE nil,
                            VerifyOrganizationDeletion(id, resp))
    /\ UNCHANGED <<cr, orgs, created, secrets, last, scenario, peer, before,
                 vpce, svcClient, flight>>

\* The caller has taken the result; the client is ready for the next call.
ClientReturn ==
    /\ req.op # "none"
    /\ req' = NoRequest
    /\ UNCHANGED <<cr, orgs, created, secrets, last, scenario, peer, before,
                 vpce, svcClient, flight>>

ClientNext ==
    \/ ClientCreateOrganization
    \/ ClientGetOrganization
    \/ ClientDeleteOrganization
    \/ ClientVerifyOrganizationDeletion
    \/ ClientReturn

ClientSpec == ClientInit /\ [][ClientNext]_vars

\* ------------------------------------------------------------------------
\* The Atlas client of package organization (type Client) on its own: its
\* GetOrganization is called with and without organization credentials
\* against every response of Atlas.

\* GetOrgResponse{}
EmptyOrgResponse == [IsDeleted |-> FALSE, Name |-> ""]

\* The documents Atlas sends as the body of a 200 answer to GET /orgs/{id}.
OrgDocuments ==
    {[id |-> "32b6e34b3d91647abb20e7b8", isDeleted |-> FALSE, name |-> "org-name"],
     [id |-> "32b6e34b3d91647abb20e7b9", isDeleted |-> TRUE, name |-> "old-name"]}

\* json.Unmarshal of a document into GetOrgResponse.
UnmarshalGetOrgResponse(doc) == [IsDeleted |-> doc.isDeleted, Name |-> doc.name]

\* What Client.GetOrganization returns: the response value and the error.
GetOrgResult(org, err) == [org |-> org, err |-> err]

\* The error of http.Client.Do.
TransportError == [type |-> "*url.Error", msg |-> "transport", wraps |-> <<>>]

\* Client.GetOrganization that decodes the name only.
AtlasClientGetOrganizationNameOnly(hasCredentials, resp, doc) ==
    IF ~hasCredentials
    THEN GetOrgResult(EmptyOrgResponse,
                      NewError("missing org credentials to get organization"))
    ELSE IF resp.transport
    THEN GetOrgResult(EmptyOrgResponse, TransportError)
    ELSE IF resp.status = 200
    THEN IF resp.parsable
         THEN GetOrgResult([EmptyOrgResponse EXCEPT !.Name = doc.name], nil)
         ELSE GetOrgResult(EmptyOrgResponse, NewError("json"))
    ELSE IF resp.status = 404
    THEN GetOrgResult(EmptyOrgResponse, nil)
    ELSE IF ~resp.parsable
    THEN GetOrgResult(EmptyOrgResponse, NewError("json"))
    ELSE GetOrgResult(EmptyOrgResponse, NewError("request failed"))

\* Client.GetOrganization.  On a 404 it returns the error of io.ReadAll,
\* which is nil at that point.
AtlasClientGetOrganization(hasCredentials, resp, doc) ==
    IF ~hasCredentials
    THEN GetOrgResult(EmptyOrgResponse,
                      NewError("missing org credentials to get organization"))
    ELSE IF resp.transport
    THEN GetOrgResult(EmptyOrgResponse, TransportError)
    ELSE IF resp.status = 200
    THEN IF resp.parsable
         THEN GetOrgResult(UnmarshalGetOrgResponse(doc), nil)
         ELSE GetOrgResult(EmptyOrgResponse, NewError("json"))
    ELSE IF resp.status = 404
    THEN GetOrgResult(EmptyOrgResponse, nil)
    ELSE IF ~resp.parsable
    THEN GetOrgResult(EmptyOrgResponse, NewError("json"))
    ELSE GetOrgResult(EmptyOrgResponse, NewError("request failed"))

\* One call to Client.GetOrganization: whether the client holds organization
\* credentials, the response of Atlas with its document, whether the request
\* was sent, and the result.
AtlasClientCall(hasCredentials, resp, doc, result) ==
    [op |-> "Client.GetOrganization", hasCredentials |-> hasCredentials,
     resp |-> resp, doc |-> doc, sent |-> hasCredentials,
     org |-> result.org, err |-> result.err]

AtlasGetOrganization ==
    /\ req.op = "none"
    /\ \E hasCredentials \in BOOLEAN, resp \in Responses, doc \in OrgDocuments :
          req' = AtlasClientCall(hasCredentials, resp, doc,
                                 AtlasClientGetOrganization(hasCredentials, resp, doc))
    /\ UNCHANGED <<cr, orgs, created, secrets, last, scenario, peer, before,
                 vpce, svcClient, flight>>

AtlasClientNext ==
    \/ AtlasGetOrganization
    \/ ClientReturn

AtlasClientSpec == ClientInit /\ [][AtlasClientNext]_vars

\* ------------------------------------------------------------------------
\* Two Organization resources reconciled against the same Atlas and the
\* same Secrets Manager: the driver runs the engine for either of them in
\* any order.

PairInit ==
    /\ \E sn \in {NilString, "custom"} : cr = NewResource(sn, "u-1", NilString)
    /\ \E sn \in {NilString, "custom"} : peer = NewPeer(sn)
    /\ orgs = {}
    /\ created = 0
    /\ secrets = [n \in {} |-> SecretRecord(NoKeys, "", NilString)]
    /\ last = Invocation("none", NewResource(NilString, "", NilString), <<>>,
                         Result(nil, FALSE, FALSE, NoConnectionDetails))
    /\ scenario = "none"
    /\ req = NoRequest
    /\ before = Remote(orgs, secrets)
    /\ vpce = NewVPCEndpoint
    /\ svcClient = NewConnectivityClient("", "key")
    /\ flight = NoFlight

\* The resources the driver reconciles.
Resources == {cr, peer}

\* The answers of Atlas the pair is run against: the request is served or
\* fails in transport.
PairCreateResponses == {TransportFailure, HTTP(201, TRUE)}

PairDeleteResponses(id) ==
    {TransportFailure}
    \cup (IF id \in orgs THEN {HTTP(204, TRUE)} ELSE {HTTP(404, TRUE)})

\* An engine operation op has run for resource r with outcome out.
PairInvoke(op, r, out) ==
    /\ cr' = IF r.Name = cr.Name THEN out.cr ELSE cr
    /\ peer' = IF r.Name = peer.Name THEN out.cr ELSE peer
    /\ orgs' = out.orgs
    /\ created' = out.created
    /\ secrets' = out.secrets
    /\ last' = Invocation(op, r, out.calls, out.ret)
    /\ before' = Remote(orgs, secrets)
    /\ UNCHANGED <<scenario, req, vpce, svcClient, flight>>

PairObserve ==
    \E r \in Resources, awsAnswer \in AWSAnswers :
        PairInvoke("Observe", r, ObserveRun(r, awsAnswer))

\* The driver calls Create for a resource that Observe reported as not
\* existing, which Observe does exactly when the external name is empty.
PairCreate ==
    /\ created < MaxOrgs
    /\ \E r \in Resources, resp \in PairCreateResponses, awsAnswer \in AWSAnswers :
          /\ GetExternalName(r) = ""
          /\ PairInvoke("Create", r, CreateRun(r, resp, awsAnswer))

PairDelete ==
    \E r \in Resources :
        \E resp \in PairDeleteResponses(GetExternalName(r)), awsAnswer \in AWSAnswers :
            PairInvoke("Delete", r, DeleteRun(r, resp, awsAnswer))

PairNext ==
    \/ PairObserve
    \/ PairCreate
    \/ PairDelete

PairSpec == PairInit /\ [][PairNext]_vars

\* ------------------------------------------------------------------------
\* Two Create invocations for the same Organization resource that overlap:
\* each works on its own copy of the resource, the remote calls of the two
\* interleave in any order, and the driver persists the copy of an
\* invocation when it returns.

OverlapInit ==
    /\ \E sn \in {NilString, "custom"}, kms \in {NilString, "kms-1"} :
          cr = NewResource(sn, "u-1", kms)
    /\ orgs = {}
    /\ created = 0
    /\ secrets = [n \in {} |-> SecretRecord(NoKeys, "", NilString)]
    /\ last = Invocation("none", NewResource(NilString, "", NilString), <<>>,
                         Result(nil, FALSE, FALSE, NoConnectionDetails))
    /\ scenario = "none"
    /\ req = NoRequest
    /\ peer = NewPeer(NilString)
    /\ before = Remote(orgs, secrets)
    /\ vpce = NewVPCEndpoint
    /\ svcClient = NewConnectivityClient("", "key")
    /\ flight = NoFlight

\* The driver calls Create with the resource as it reads it, when Observe
\* has reported that the organization does not exist.
OverlapStart(i) ==
    /\ flight[i].pc = "idle"
    /\ GetExternalName(cr) = ""
    /\ flight' = [flight EXCEPT ![i] = Flight("started", cr, "", <<>>, @.ret)]
    /\ UNCHANGED <<cr, orgs, created, secrets, last, scenario, req, peer, before,
                   vpce, svcClient>>

\* external.Create up to the return of client.CreateOrganization.
OverlapCreateOrganization(i) ==
    /\ flight[i].pc = "started"
    /\ created < MaxOrgs
    /\ \E resp \in PairCreateResponses :
          LET r == flight[i].r
              err == CreateOrganization(r.Name, r.OwnerID, resp)
              served == CreateSendsRequest(r.Name, r.OwnerID)
                        /\ ~resp.transport /\ resp.status = 201
              id == OrgID(created + 1)
              c1 == Call("CreateOrganization", r.Name, err)
          IN /\ orgs' = IF served THEN orgs \cup {id} ELSE orgs
             /\ created' = IF served THEN created + 1 ELSE created
             /\ flight' = [flight EXCEPT ![i] =
                              IF err # nil
                              THEN Flight("finished", r, "", <<c1>>,
                                          Result(err, FALSE, FALSE, NoConnectionDetails))
                              ELSE Flight("created", r, id, <<c1>>, @.ret)]
    /\ UNCHANGED <<cr, secrets, last, scenario, req, peer, before, vpce, svcClient>>

\* external.Create from meta.SetExternalName on: the key pair is put under
\* the secret name of the resource, in the store as it is now.
OverlapPutSecret(i) ==
    /\ flight[i].pc = "created"
    /\ \E awsAnswer \in AWSAnswers :
          LET out == CreateStore(flight[i].r, flight[i].id, orgs, created,
                                 flight[i].calls[1], awsAnswer)
          IN /\ secrets' = out.secrets
             /\ flight' = [flight EXCEPT ![i] =
                              Flight("finished", out.cr, @.id, out.calls, out.ret)]
    /\ UNCHANGED <<cr, orgs, created, last, scenario, req, peer, before,
                   vpce, svcClient>>

\* Create returns and the driver persists what the invocation recorded on
\* its copy of the resource; the later of two writers wins.
OverlapReturn(i) ==
    /\ flight[i].pc = "finished"
    /\ cr' = IF GetExternalName(flight[i].r) # "" THEN flight[i].r ELSE cr
    /\ flight' = [flight EXCEPT ![i].pc = "returned"]
    /\ UNCHANGED <<orgs, created, secrets, last, scenario, req, peer, before,
                   vpce, svcClient>>

OverlapNext ==
    \E i \in Invocations :
        \/ OverlapStart(i)
        \/ OverlapCreateOrganization(i)
        \/ OverlapPutSecret(i)
        \/ OverlapReturn(i)

OverlapSpec == OverlapInit /\ [][OverlapNext]_vars

\* ------------------------------------------------------------------------
\* The VPCEndpoint resource kind: external.Observe / Create / Update /
\* Delete of internal/controller/vpcendpoint over the connectivity client,
\* which talks to the VPC endpoint lambdas.

errorCodeNotFound == "InvalidVpcEndpointId.NotFound"

\* ErrNotFound is a sentinel for a 404 error
ErrNotFound == NewError("not found")

\* errors.Is: the target is the error itself or one it was built around.
ErrorsIs(err, target) == err.type = target.type /\ err.msg = target.msg

\* The error of json.Unmarshal.
SyntaxError == [type |-> "*json.SyntaxError", msg |-> "invalid character", wraps |-> <<>>]

ZeroVPCEndpoint == [VpcEndpointID |-> "", State |-> ""]

ZeroErrorResponse == [Code |-> "", Message |-> ""]

\* A response body that is a JSON document: the keys the client decodes,
\* with the zero value for a key the document does not have.
Document(error, endpoints, endpoint) ==
    [json |-> TRUE, Error |-> error, VpcEndpoints |-> endpoints,
     VpcEndpoint |-> endpoint]

\* A response body that is not JSON.
Garbage == [Document(ZeroErrorResponse, <<>>, ZeroVPCEndpoint) EXCEPT !.json = FALSE]

ErrorDocument(code) ==
    Document([Code |-> code, Message |-> "message"], <<>>, ZeroVPCEndpoint)

StatusDocument(states) ==
    Document(ZeroErrorResponse,
             [i \in 1..Len(states) |-> [VpcEndpointID |-> "vpce-1", State |-> states[i]]],
             ZeroVPCEndpoint)

EndpointDocument(id) ==
    Document(ZeroErrorResponse, <<>>, [VpcEndpointID |-> id, State |-> "pending"])

\* The bodies a lambda answers with.
LambdaBodies ==
    {Garbage, ErrorDocument(errorCodeNotFound), ErrorDocument("InternalError")}
    \cup {StatusDocument(states) :
            states \in {<<>>, <<"pending">>, <<"available">>, <<"rejected">>,
                        <<"available", "pending">>}}
    \cup {EndpointDocument(id) : id \in {"vpce-1", "vpce-2"}}

LambdaStatuses == {200, 400, 404, 500}

\* Every way a lambda can answer one HTTP request: the request fails in
\* transport, or a status code and a body come back.
LambdaResponses ==
    {[transport |-> TRUE, status |-> 0, body |-> Garbage]}
    \cup {[transport |-> FALSE, status |-> s, body |-> b] :
            s \in LambdaStatuses, b \in LambdaBodies}

\* http.Client.Do sends a request only to a URL that has a scheme; the URL of
\* both lambdas is url.JoinPath(c.BaseURL, "vpcendpoint").
Sendable(client) == client.BaseURL # ""

\* ParseLambdaErrorResponse
ParseLambdaErrorResponse(body) ==
    IF ~body.json
    THEN [Error |-> ZeroErrorResponse, err |-> SyntaxError]
    ELSE [Error |-> body.Error, err |-> nil]

\* Client.requestVPCEndpointStatus: the body, the status code and the error.
requestVPCEndpointStatus(client, resp) ==
    IF ~Sendable(client) \/ resp.transport
    THEN [body |-> Garbage, status |-> 0, err |-> TransportError]
    ELSE [body |-> resp.body, status |-> resp.status, err |-> nil]

\* Client.GetVPCEndpointStatus: the state of the endpoint and the error.
GetVPCEndpointStatus(client, resp) ==
    LET res == requestVPCEndpointStatus(client, resp)
        responseError == ParseLambdaErrorResponse(res.body)
    IN IF res.err # nil
       THEN [State |-> "", err |-> res.err]
       ELSE IF res.status # 200
       THEN IF responseError.err # nil
            THEN [State |-> "",
                  err |-> Wrap(responseError.err, "unable to parse error with status code")]
            ELSE IF responseError.Error.Code = errorCodeNotFound
            THEN [State |-> "", err |-> Wrap(ErrNotFound, responseError.Error.Message)]
            ELSE [State |-> "", err |-> NewError("unexpected status code")]
       ELSE IF ~res.body.json
       THEN [State |-> "", err |-> Wrap(SyntaxError, "unable to parse status response")]
       ELSE IF Len(res.body.VpcEndpoints) = 0
       THEN [State |-> "", err |-> Wrap(ErrNotFound, "empty list of vpcEndpoints")]
       ELSE [State |-> res.body.VpcEndpoints[1].State, err |-> nil]

\* Client.CreateVPCEndpoint: the endpoint of the response and the error.
CreateVPCEndpoint(client, resp) ==
    IF ~Sendable(client) \/ resp.transport
    THEN [VpcEndpoint |-> ZeroVPCEndpoint, err |-> TransportError]
    ELSE IF resp.status # 200
    THEN IF ParseLambdaErrorResponse(resp.body).err # nil
         THEN [VpcEndpoint |-> ZeroVPCEndpoint,
               err |-> Wrap(SyntaxError, "unable to parse error with status code")]
         ELSE [VpcEndpoint |-> ZeroVPCEndpoint, err |-> NewError("unexpected status code")]
    ELSE IF ~resp.body.json
    THEN [VpcEndpoint |-> ZeroVPCEndpoint, err |-> SyntaxError]
    ELSE [VpcEndpoint |-> resp.body.VpcEndpoint, err |-> nil]

\* What an operation of the VPCEndpoint external leaves behind: the
\* resource, the calls it issued and what it returned.
VpcOutcome(r, calls, ret) == [cr |-> r, calls |-> calls, ret |-> ret]

\* Observe that reports every endpoint it found as Available.
VpcObserveRunAlwaysAvailable(r, client, resp) ==
    LET id == GetExternalName(r)
        r1 == [r EXCEPT !.VpcEndpointID = id]
        vpcEndpoint == GetVPCEndpointStatus(client, resp)
        c1 == Call("GetVPCEndpointStatus", id, vpcEndpoint.err)
    IN IF id = ""
       THEN VpcOutcome(r1, <<>>, Result(nil, FALSE, FALSE, NoConnectionDetails))
       ELSE IF ErrorsIs(vpcEndpoint.err, ErrNotFound)
       THEN VpcOutcome(r1, <<c1>>, Result(nil, FALSE, FALSE, NoConnectionDetails))
       ELSE IF vpcEndpoint.err # nil
       THEN VpcOutcome(r1, <<c1>>,
                       Result(vpcEndpoint.err, FALSE, FALSE, NoConnectionDetails))
       ELSE VpcOutcome([r1 EXCEPT !.State = vpcEndpoint.State,
                                  !.Ready = "Available", !.ReadyMessage = ""],
                       <<c1>>, Result(nil, TRUE, TRUE, NoConnectionDetails))

\* external.Observe of the VPCEndpoint kind
VpcObserveRun(r, client, resp) ==
    LET id == GetExternalName(r)
        r1 == [r EXCEPT !.VpcEndpointID = id]
        vpcEndpoint == GetVPCEndpointStatus(client, resp)
        c1 == Call("GetVPCEndpointStatus", id, vpcEndpoint.err)
    IN IF id = ""
       THEN VpcOutcome(r1, <<>>, Result(nil, FALSE, FALSE, NoConnectionDetails))
       ELSE IF ErrorsIs(vpcEndpoint.err, ErrNotFound)
       THEN VpcOutcome(r1, <<c1>>, Result(nil, FALSE, FALSE, NoConnectionDetails))
       ELSE IF vpcEndpoint.err # nil
       THEN VpcOutcome(r1, <<c1>>,
                       Result(vpcEndpoint.err, FALSE, FALSE, NoConnectionDetails))
       ELSE VpcOutcome(IF vpcEndpoint.State = "available"
                       THEN [r1 EXCEPT !.State = vpcEndpoint.State,
                                       !.Ready = "Available", !.ReadyMessage = ""]
                       ELSE [r1 EXCEPT !.State = vpcEndpoint.State,
                                       !.Ready = "Unavailable",
                                       !.ReadyMessage = vpcEndpoint.State],
                       <<c1>>, Result(nil, TRUE, TRUE, NoConnectionDetails))

\* external.Create of the VPCEndpoint kind
VpcCreateRun(r, client, resp) ==
    LET res == CreateVPCEndpoint(client, resp)
        c1 == Call("CreateVPCEndpoint", r.Name, res.err)
    IN IF res.err # nil
       THEN VpcOutcome(r, <<c1>>, Result(res.err, FALSE, FALSE, NoConnectionDetails))
       ELSE VpcOutcome(SetExternalName(r, res.VpcEndpoint.VpcEndpointID), <<c1>>,
                       Result(nil, FALSE, FALSE, NoConnectionDetails))

\* external.Update of the VPCEndpoint kind
VpcUpdateRun(r) ==
    VpcOutcome(r, <<>>,
               Result(NewError("update is not supported"), FALSE, FALSE,
                      NoConnectionDetails))

\* external.Delete of the VPCEndpoint kind
VpcDeleteRun(r) ==
    VpcOutcome(r, <<>>,
               Result(NewError("delete is not supported"), FALSE, FALSE,
                      NoConnectionDetails))

\* The external is connected with the client Connect builds, whose base URL
\* is empty, or with a client built for the URL of the lambdas.
VpcInit ==
    /\ cr = NewResource(NilString, "u-1", NilString)
    /\ orgs = {}
    /\ created = 0
    /\ secrets = [n \in {} |-> SecretRecord(NoKeys, "", NilString)]
    /\ last = Invocation("none", NewVPCEndpoint, <<>>,
                         Result(nil, FALSE, FALSE, NoConnectionDetails))
    /\ scenario = "none"
    /\ req = NoRequest
    /\ peer = NewPeer(NilString)
    /\ before = Remote(orgs, secrets)
    /\ vpce = NewVPCEndpoint
    /\ \E baseURL \in {"", "https://lambda.example"} :
          svcClient = NewConnectivityClient(baseURL, "key")
    /\ flight = NoFlight

\* An operation op of the VPCEndpoint external has run with outcome out;
\* resp is how the lambda answers a request of the operation.
VpcInvoke(op, resp, out) ==
    /\ vpce' = out.cr
    /\ last' = Invocation(op, vpce, out.calls, out.ret)
    /\ req' = IF out.calls = <<>>
              THEN NoRequest
              ELSE ClientCall(out.calls[1].api, <<out.calls[1].arg>>, resp,
                              Sendable(svcClient), out.calls[1].err, out.calls[1].err)
    /\ UNCHANGED <<cr, orgs, created, secrets, scenario, peer, before,
                   svcClient, flight>>

\* The control plane marks the VPCEndpoint for deletion.
VpcRequestDeletion ==
    /\ ~vpce.DeletionTimestamp
    /\ vpce' = [vpce EXCEPT !.DeletionTimestamp = TRUE]
    /\ UNCHANGED <<cr, orgs, created, secrets, last, scenario, req, peer, before,
                   svcClient, flight>>

VpcObserve ==
    \E resp \in LambdaResponses :
        VpcInvoke("Observe", resp, VpcObserveRun(vpce, svcClient, resp))

VpcCreate ==
    \E resp \in LambdaResponses :
        VpcInvoke("Create", resp, VpcCreateRun(vpce, svcClient, resp))

VpcUpdate ==
    \E resp \in LambdaResponses : VpcInvoke("Update", resp, VpcUpdateRun(vpce))

VpcDelete ==
    \E resp \in LambdaResponses : VpcInvoke("Delete", resp, VpcDeleteRun(vpce))

VpcNext ==
    \/ VpcRequestDeletion
    \/ VpcObserve
    \/ VpcCreate
    \/ VpcUpdate
    \/ VpcDelete

VpcSpec == VpcInit /\ [][VpcNext]_vars

\* The control plane keeps calling Delete for a VPCEndpoint marked for
\* deletion until it returns success.
VpcFairSpec ==
    VpcInit /\ [][VpcNext]_vars /\ WF_vars(vpce.DeletionTimestamp /\ VpcDelete)

\* ------------------------------------------------------------------------
\* Properties.  They read the record of the last invocation (last), the
\* resource it left (cr) and the remote systems (orgs, secrets).

Token == FinalizerOrganizationCleanup

\* The resource without the deletion timestamp, which the control plane may
\* set after the last invocation returned and which no operation writes.
Written(r) == [r EXCEPT !.DeletionTimestamp = FALSE]

\* The calls of the last invocation to one remote operation.
CallsTo(api) == {i \in 1..Len(last.calls) : last.calls[i].api = api}

Issued(api) == CallsTo(api) # {}

RemoteDeleteIssued == Issued("DeleteOrganization") \/ Issued("DeleteSecret")

\* The last invocation was a Delete that found the token and a non-empty
\* external name, and so called the Organization API.
DeleteCalledAtlas ==
    /\ last.op = "Delete"
    /\ Token \in last.pre.Finalizers
    /\ last.pre.ExternalName # ""
    /\ Len(last.calls) >= 1
    /\ last.calls[1].api = "DeleteOrganization"

\* The organization delete of the last Delete succeeded or was NotFound.
OrgDeleteDone ==
    /\ DeleteCalledAtlas
    /\ \/ last.calls[1].err = nil
       \/ last.calls[1].err.type = "*NotFoundError"

\* The organization delete of the last Delete failed otherwise.
OrgDeleteFailed ==
    /\ DeleteCalledAtlas
    /\ last.calls[1].err # nil
    /\ last.calls[1].err.type # "*NotFoundError"

\* C1 as stated: a Delete on a resource without the finalizer token issues no
\* remote delete call, records the token and returns success, whatever the
\* external name; and only a Delete that found the token issues remote deletes.
C1_Checkpoint_AsStated ==
    /\ (last.op = "Delete" /\ Token \notin last.pre.Finalizers)
          => (~RemoteDeleteIssued /\ Token \in cr.Finalizers /\ last.ret.err = nil)
    /\ RemoteDeleteIssued => (last.op = "Delete" /\ Token \in last.pre.Finalizers)

\* C1 amended: a Delete on a resource without the token issues no remote call
\* and returns success; it records the token when the external name is not
\* empty and leaves the resource as it was when it is empty; every remote
\* delete call is issued by a Delete that found the token.
C1_Checkpoint ==
    /\ (last.op = "Delete" /\ Token \notin last.pre.Finalizers)
          => /\ last.calls = <<>>
             /\ last.ret.err = nil
             /\ last.pre.ExternalName # "" => Token \in cr.Finalizers
             /\ last.pre.ExternalName = "" => Written(cr) = Written(last.pre)
    /\ RemoteDeleteIssued => (last.op = "Delete" /\ Token \in last.pre.Finalizers)

C1_Witness ==
    /\ last.op = "Delete"
    /\ Token \notin last.pre.Finalizers
    /\ last.pre.ExternalName # ""
    /\ Token \in cr.Finalizers
    /\ last.calls = <<>>

\* C2: when in Create the organization was created and the credential Put
\* failed, a delete of the organization just created is issued after the Put,
\* and Create returns the Put failure.
C2_Compensation ==
    (/\ last.op = "Create"
     /\ Len(last.calls) >= 2
     /\ last.calls[1].api = "CreateOrganization" /\ last.calls[1].err = nil
     /\ last.calls[2].api = "PutSecret" /\ last.calls[2].err # nil)
        => /\ Len(last.calls) >= 3
           /\ last.calls[3].api = "DeleteOrganization"
           /\ last.calls[3].arg = cr.ExternalName
           /\ last.ret.err = Wrap(last.calls[2].err, "failed to put secret")

\* C3: a Delete that found the token and whose organization delete was
\* classified NotFound goes on to the credential delete, removes the token and
\* returns no error.
C3_IdempotentDelete ==
    (DeleteCalledAtlas /\ last.calls[1].err.type = "*NotFoundError")
        => /\ Len(last.calls) = 2
           /\ last.calls[2].api = "DeleteSecret"
           /\ Token \notin cr.Finalizers
           /\ last.ret.err = nil

C3_Witness ==
    /\ DeleteCalledAtlas
    /\ last.calls[1].err.type = "*NotFoundError"
    /\ last.pre.ExternalName \notin orgs
    /\ Token \notin cr.Finalizers
    /\ last.ret.err = nil

\* C4: a Delete that found the token and whose organization delete failed
\* with an error other than NotFound returns that error (wrapped), issues no
\* credential delete and leaves token and external name in place, which is
\* the condition under which Delete calls the Organization API again; and a
\* Delete that finds token and external name does call it.
C4_DeleteErrorKeepsFinalizer ==
    /\ OrgDeleteFailed
          => /\ last.ret.err = Wrap(last.calls[1].err, errDeleteExternal)
             /\ last.ret.err # nil
             /\ ~Issued("DeleteSecret")
             /\ Token \in cr.Finalizers
             /\ cr.ExternalName = last.pre.ExternalName
    /\ (/\ last.op = "Delete"
        /\ Token \in last.pre.Finalizers
        /\ last.pre.ExternalName # "")
          => /\ DeleteCalledAtlas
             /\ last.calls[1].arg = last.pre.ExternalName

C4_Witness ==
    /\ OrgDeleteFailed
    /\ last.ret.err # nil
    /\ Token \in cr.Finalizers
    /\ last.pre.ExternalName \in orgs

\* C5: once the organization delete succeeded or was NotFound, Delete issues
\* the credential delete and, also when that fails, removes the token and
\* returns success.
C5_SecretDeleteBestEffort ==
    OrgDeleteDone
        => /\ Len(last.calls) = 2
           /\ last.calls[2].api = "DeleteSecret"
           /\ Token \notin cr.Finalizers
           /\ last.ret.err = nil

C5_Witness ==
    /\ OrgDeleteDone
    /\ Len(last.calls) = 2
    /\ last.calls[2].api = "DeleteSecret"
    /\ last.calls[2].err # nil
    /\ Token \notin cr.Finalizers
    /\ last.ret.err = nil

\* The last invocation was a Delete that removed the token.
TokenRemoved ==
    /\ last.op = "Delete"
    /\ Token \in last.pre.Finalizers
    /\ Token \notin cr.Finalizers

\* C6 as stated: when Delete removes the token, neither the organization nor
\* its credential record exists remotely.
C6_RemovedOnlyWhenBothAbsent_AsStated ==
    TokenRemoved
        => /\ last.pre.ExternalName \notin orgs
           /\ finalSecretName(last.pre) \notin DOMAIN secrets

\* C6 amended: when Delete removes the token, the organization does not exist
\* remotely and the credential delete has been issued; the credential record
\* is absent when that delete returned no error.
C6_RemovedAfterOrgAbsent ==
    TokenRemoved
        => /\ last.pre.ExternalName \notin orgs
           /\ Len(last.calls) = 2
           /\ last.calls[2].api = "DeleteSecret"
           /\ last.calls[2].err = nil => last.calls[2].arg \notin DOMAIN secrets

C6_Witness ==
    /\ TokenRemoved
    /\ last.pre.ExternalName \notin orgs
    /\ last.calls[2].err = nil
    /\ last.calls[2].arg \notin DOMAIN secrets

\* C7: after a successful Create on a fresh resource the external name is
\* set and the credential is stored; the first Delete after it issues no
\* remote call and only records the token; the Delete after that calls the
\* organization delete and, when it is served, the credential delete, clears
\* the token and returns success, and what the two systems served is gone.
C7_DeletionTrace ==
    /\ scenario = "created"
          => /\ cr.ExternalName \in orgs
             /\ finalSecretName(cr) \in DOMAIN secrets
             /\ cr.StatusSecretName = finalSecretName(cr)
    /\ scenario = "firstDelete"
          => /\ last.op = "Delete"
             /\ last.calls = <<>>
             /\ last.ret.err = nil
             /\ Written(cr) = Written([last.pre EXCEPT !.Finalizers = {Token}])
             /\ cr.ExternalName \in orgs
             /\ finalSecretName(cr) \in DOMAIN secrets
    /\ scenario = "secondDelete"
          => /\ DeleteCalledAtlas
             /\ last.calls[1].arg = cr.ExternalName
             /\ last.calls[1].err = nil
                   => /\ cr.ExternalName \notin orgs
                      /\ Len(last.calls) = 2
                      /\ last.calls[2].api = "DeleteSecret"
                      /\ last.calls[2].arg = finalSecretName(cr)
                      /\ last.calls[2].err = nil
                            => finalSecretName(cr) \notin DOMAIN secrets
                      /\ Token \notin cr.Finalizers
                      /\ last.ret.err = nil

C7_Witness ==
    /\ scenario = "secondDelete"
    /\ last.calls[1].err = nil
    /\ Len(last.calls) = 2
    /\ last.calls[2].err = nil
    /\ cr.ExternalName \notin orgs
    /\ finalSecretName(cr) \notin DOMAIN secrets
    /\ Token \notin cr.Finalizers

\* C8: an Observe on a resource with an empty external name reports that the
\* resource does not exist, returns no error and issues no remote call.
C8_ObserveFastPath ==
    (last.op = "Observe" /\ last.pre.ExternalName = "")
        => /\ last.ret.ResourceExists = FALSE
           /\ last.ret.err = nil
           /\ last.calls = <<>>
           /\ Written(cr) = Written(last.pre)

C8_Witness ==
    /\ last.op = "Observe"
    /\ last.pre.ExternalName = ""
    /\ last.ret.ResourceExists = FALSE
    /\ orgs # {}

\* C9: an Observe on a resource with a non-empty external name issues a Get
\* against the Organization API, and when that Get is classified NotFound it
\* reports that the resource does not exist, with no error, and issues a
\* delete of the orphaned credential record.
C9_ObserveGetsOrganization ==
    (last.op = "Observe" /\ last.pre.ExternalName # "")
        => \E i \in CallsTo("GetOrganization") :
              last.calls[i].err.type = "*NotFoundError"
                  => /\ last.ret.ResourceExists = FALSE
                     /\ last.ret.err = nil
                     /\ Issued("DeleteSecret")

\* C10: when the Get against the Organization API that Observe issues fails
\* with an error other than NotFound, Observe returns that error and so does
\* not report the resource as absent.
C10_ObserveGetErrorPropagates ==
    (last.op = "Observe" /\ last.pre.ExternalName # "")
        => \E i \in CallsTo("GetOrganization") :
              (last.calls[i].err # nil /\ last.calls[i].err.type # "*NotFoundError")
                  => /\ last.ret.err # nil
                     /\ [last.ret.err EXCEPT !.wraps = <<>>] = last.calls[i].err

\* C11: when the organization exists remotely and no credential record is
\* stored under the resolved name, Observe reports exists=true and
\* upToDate=false and returns no error.
C11_ObserveReportsDrift ==
    (/\ last.op = "Observe"
     /\ last.pre.ExternalName \in orgs
     /\ finalSecretName(last.pre) \notin DOMAIN secrets)
        => /\ last.ret.ResourceExists = TRUE
           /\ last.ret.ResourceUpToDate = FALSE
           /\ last.ret.err = nil

\* C12 as stated: the Observe that directly follows a successful Create
\* reports exists=true and upToDate=true with no error, whatever the call to
\* the credential store returned.
C12_CreateThenObserve_AsStated ==
    scenario = "observed"
        => /\ last.ret.ResourceExists = TRUE
           /\ last.ret.ResourceUpToDate = TRUE
           /\ last.ret.err = nil

\* C12: the Observe that directly follows a successful Create returns no
\* error and reports exists=true whatever the call to the credential store
\* returned; it reports upToDate=true when the resource is not marked for
\* deletion, and upToDate=false with no remote call when it is.
C12_CreateThenObserve ==
    scenario = "observed"
        => /\ last.op = "Observe"
           /\ last.pre.ExternalName # ""
           /\ last.ret.ResourceExists = TRUE
           /\ last.ret.err = nil
           /\ last.ret.ResourceUpToDate = ~last.pre.DeletionTimestamp
           /\ last.pre.DeletionTimestamp => last.calls = <<>>

\* An Observe directly after a successful Create whose metadata read failed.
C12_Witness ==
    /\ scenario = "observed"
    /\ ~last.pre.DeletionTimestamp
    /\ Len(last.calls) = 1
    /\ last.calls[1].api = "DescribeSecret"
    /\ last.calls[1].err # nil
    /\ last.ret.ResourceUpToDate = TRUE

\* C13: with the two remote systems in a fixed state and answering the same
\* way, a second Observe leaves the resource (external name, identity fields,
\* credential name and ARN, conditions) as the first Observe left it.
C13_ObserveIdempotent ==
    \A a \in AWSAnswers :
        ObserveRun(ObserveRun(cr, a).cr, a).cr = ObserveRun(cr, a).cr

\* An Observe that called the credential store and found the status already
\* as an earlier Observe had left it.
C13_Witness ==
    /\ last.op = "Observe"
    /\ last.pre.Ready = "Available"
    /\ last.pre.StatusSecretName # ""
    /\ Len(last.calls) = 1
    /\ last.calls[1].err = nil
    /\ Written(cr) = Written(last.pre)

\* C14 as stated: the external name is non-empty exactly when the
\* organization was created and its deletion is not confirmed; so it is
\* non-empty after a Create whose organization create call succeeded and
\* empty after a Delete whose organization delete succeeded or was NotFound.
C14_ExternalID_AsStated ==
    /\ (last.op = "Create" /\ last.calls[1].err = nil) => cr.ExternalName # ""
    /\ OrgDeleteDone => cr.ExternalName = ""

\* C14: the external name is non-empty exactly when the organization create
\* call of some Create has succeeded: a non-empty external name is an
\* identifier the Organization API assigned, the only invocation that
\* changes it is a Create whose organization create call succeeded, which
\* sets it to the new identifier, and a Delete that confirmed the deletion
\* leaves it in place.
C14_ExternalIDSetByCreateOnly ==
    /\ cr.ExternalName # "" => \E k \in 1..created : cr.ExternalName = OrgID(k)
    /\ last.op # "none"
          => ((cr.ExternalName # last.pre.ExternalName)
                <=> (last.op = "Create" /\ last.calls[1].err = nil))
    /\ (last.op = "Create" /\ last.calls[1].err = nil)
          => cr.ExternalName = OrgID(created)
    /\ OrgDeleteDone => cr.ExternalName = last.pre.ExternalName

\* A Delete confirmed the deletion and the external name is still set.
C14_Witness ==
    /\ OrgDeleteDone
    /\ cr.ExternalName # ""
    /\ cr.ExternalName \notin orgs
    /\ Token \notin cr.Finalizers

\* C15: a Delete pass that found the organization already absent remotely,
\* and none of whose calls to the credential store failed, leaves no
\* credential record stored for the organization.
C15_CredentialGoneAfterOnePass ==
    (/\ last.op = "Delete"
     /\ last.pre.ExternalName # ""
     /\ last.pre.ExternalName \notin orgs
     /\ \A i \in CallsTo("DeleteOrganization") : last.calls[i].err # nil
     /\ \A i \in CallsTo("DeleteSecret") : last.calls[i].err = nil)
        => finalSecretName(last.pre) \notin DOMAIN secrets

\* C16: a Create on a resource that requests an encryption key validates the
\* key first, and when the validation fails it returns an error without
\* having issued the organization create or the credential Put.
C16_KMSValidatedFirst ==
    (last.op = "Create" /\ last.pre.KMSKeyID # NilString)
        => /\ last.calls[1].api = "ValidateKMSKey"
           /\ last.calls[1].err # nil
                 => (Len(last.calls) = 1 /\ last.ret.err # nil)

\* C17: when the organization create call of a Create fails, Create returns
\* that error, issues no credential Put and no organization delete, returns
\* no connection details and leaves the external name and every status
\* field as they were.
C17_CreateOrgFailure ==
    (last.op = "Create" /\ last.calls[1].err # nil)
        => /\ last.ret.err = last.calls[1].err
           /\ Len(last.calls) = 1
           /\ last.calls[1].api = "CreateOrganization"
           /\ ~Issued("PutSecret")
           /\ ~Issued("DeleteOrganization")
           /\ last.ret.ConnectionDetails = NoConnectionDetails
           /\ Written(cr) = Written(last.pre)

\* A Create on a resource with no external name whose request Atlas served
\* but whose response could not be decoded: the resource is left untouched.
C17_Witness ==
    /\ last.op = "Create"
    /\ last.calls[1].err # nil
    /\ last.pre.ExternalName = ""
    /\ cr.ExternalName = ""
    /\ cr.OrgName = ""
    /\ orgs # {}

\* C18: a Create that returns no error has set the external name to the
\* identifier Atlas assigned, recorded the resolved credential name and the
\* ARN the Put returned in the status, returned the key pair of the created
\* organization, and the stored credential record carries that organization
\* identifier as its tag.
C18_CreateSuccess ==
    (last.op = "Create" /\ last.ret.err = nil)
        => LET id == OrgID(created)
               secretName == finalSecretName(last.pre)
           IN /\ cr.ExternalName = id
              /\ cr.StatusSecretName = secretName
              /\ cr.SecretARN = ARN(secretName)
              /\ last.ret.ConnectionDetails.publicKey = APIKeyPair(id).PublicKey
              /\ last.ret.ConnectionDetails.privateKey = APIKeyPair(id).PrivateKey
              /\ secretName \in DOMAIN secrets
              /\ secrets[secretName].SecretString = APIKeyPair(id)
              /\ secrets[secretName].OrgID = id

C20_UpdateMergesCredential ==
    (/\ last.op = "Update"
     /\ last.pre.ExternalName # ""
     /\ finalSecretName(last.pre) \in DOMAIN secrets
     /\ last.pre.Description # ""
     /\ "Description" \notin DOMAIN secrets[finalSecretName(last.pre)].SecretString)
        => /\ Issued("GetSecret")
           /\ Issued("PutSecret")

\* ------------------------------------------------------------------------
\* Properties of the Atlas service client (ClientSpec).  They read the
\* record of the last client call (req).

\* The kind of the taxonomy an error of the client belongs to, whatever
\* messages it was wrapped with afterwards.
KindOf(err) ==
    IF err.type = "*NotFoundError" THEN "NotFound"
    ELSE IF err.type = "*ConflictError" THEN "Conflict"
    ELSE IF err.type = "*RetryableError" /\ err.msg = "rate limited" THEN "RateLimited"
    ELSE IF err.type = "*RetryableError" /\ err.msg = "server error" THEN "ServerError"
    ELSE IF err.type = "*RetryableError" THEN "NetworkError"
    ELSE IF err.type = "Error" THEN "ClientError"
    ELSE "Unclassified"

\* The kind the specification gives to the status code of an error response.
KindOfStatus(status) ==
    IF status = 404 THEN "NotFound"
    ELSE IF status = 409 THEN "Conflict"
    ELSE IF status = 429 THEN "RateLimited"
    ELSE IF status >= 500 THEN "ServerError"
    ELSE "ClientError"

\* An error is reported as one to retry by one of the three predicates the
\* client exports.
ReportedRetryable(err) ==
    IsNotFoundError(err) \/ IsConflictError(err) \/ IsRetryableError(err)

\* The last client call sent its request and Atlas answered with an error
\* status.
ErrorResponse == req.sent /\ ~req.resp.transport /\ req.resp.status >= 400

\* C21 as stated: whatever the body of an error response, makeRequest gives
\* the response the kind of its status code: 404 NotFound, 409 Conflict,
\* 429 RateLimited, 500..599 ServerError, every other 4xx ClientError.
C21_ClassifyByStatus_AsStated ==
    ErrorResponse => KindOf(req.raw) = KindOfStatus(req.resp.status)

\* C21: for an error response whose body parses, makeRequest gives the
\* response the kind of its status code: 404 NotFound, 409 Conflict, 429
\* RateLimited, 500..599 ServerError, every other 4xx ClientError.
C21_ClassifyByStatus ==
    (ErrorResponse /\ req.resp.parsable)
        => KindOf(req.raw) = KindOfStatus(req.resp.status)

\* A 409 with a parsable body was classified Conflict.
C21_Witness ==
    /\ ErrorResponse
    /\ req.resp.parsable
    /\ req.resp.status = 409
    /\ KindOf(req.raw) = "Conflict"

\* C22: for an error response whose body does not parse, makeRequest yields
\* a ServerError, reported as retryable, when the status is 5xx, and an
\* unclassified error, not reported as retryable, for every other status
\* (404, 409 and 429 included).
C22_UnparsableBody ==
    (ErrorResponse /\ ~req.resp.parsable)
        => IF req.resp.status >= 500
           THEN KindOf(req.raw) = "ServerError" /\ IsRetryableError(req.raw)
           ELSE KindOf(req.raw) = "Unclassified" /\ ~ReportedRetryable(req.raw)

\* A 404 whose body does not parse was left unclassified.
C22_Witness ==
    /\ ErrorResponse
    /\ ~req.resp.parsable
    /\ req.resp.status = 404
    /\ KindOf(req.raw) = "Unclassified"
    /\ ~IsNotFoundError(req.raw)

\* C23: every error a client operation returns is reported as retryable
\* exactly when its kind is NotFound, Conflict, RateLimited, ServerError or
\* NetworkError.
C23_RetryTaxonomy ==
    req.err # nil
        => (ReportedRetryable(req.err)
              <=> KindOf(req.err) \in {"NotFound", "Conflict", "RateLimited",
                                       "ServerError", "NetworkError"})

\* C30: CreateOrganization with an empty name or an empty owner identifier,
\* and DeleteOrganization with an empty identifier, return an error without
\* sending an HTTP request, and the error is not reported as retryable.
C30_ConfigurationInvalid ==
    /\ (req.op = "CreateOrganization" /\ (req.args[1] = "" \/ req.args[2] = ""))
          => (req.err # nil /\ ~req.sent /\ ~ReportedRetryable(req.err))
    /\ (req.op = "DeleteOrganization" /\ req.args[1] = "")
          => (req.err # nil /\ ~req.sent /\ ~ReportedRetryable(req.err))

\* CreateOrganization was called with a name and no owner identifier while
\* Atlas would have answered 201.
C30_Witness ==
    /\ req.op = "CreateOrganization"
    /\ req.args = <<"acme", "">>
    /\ req.resp = HTTP(201, TRUE)
    /\ req.err = NewError("organization ownerID cannot be empty")

\* ------------------------------------------------------------------------
\* Further properties of the engine (Spec).

\* The remote operations the engine can issue.
RemoteOperations ==
    {"CreateOrganization", "GetOrganization", "DeleteOrganization",
     "PutSecret", "DescribeSecret", "DeleteSecret"}

\* C24: makeRequest classifies a transport failure as NetworkError; a Create
\* or Delete whose call to the Organization API failed that way returns that
\* error after this one call: Create issues no credential Put and leaves the
\* resource as it was, Delete issues no credential delete and keeps the
\* finalizer.
C24_TransportFailureAborts ==
    /\ \A hasResult \in BOOLEAN :
          KindOf(makeRequest(TransportFailure, hasResult)) = "NetworkError"
    /\ (/\ last.op \in {"Create", "Delete"}
        /\ last.calls # <<>>
        /\ KindOf(last.calls[1].err) = "NetworkError")
          => /\ last.ret.err # nil
             /\ KindOf(last.ret.err) = "NetworkError"
             /\ Len(last.calls) = 1
             /\ ~Issued("PutSecret")
             /\ ~Issued("DeleteSecret")
             /\ last.op = "Create" => Written(cr) = Written(last.pre)
             /\ last.op = "Delete" => Token \in cr.Finalizers

\* A Delete whose request to Atlas failed in transport kept the finalizer.
C24_Witness ==
    /\ last.op = "Delete"
    /\ Len(last.calls) = 1
    /\ last.calls[1].err = makeRequest(TransportFailure, FALSE)
    /\ last.ret.err # nil
    /\ Token \in cr.Finalizers

\* C25: one invocation of Observe, Create, Update or Delete issues each
\* remote operation at most once, whatever the calls return.
C25_NoInternalRetry ==
    /\ \A api \in RemoteOperations : Cardinality(CallsTo(api)) <= 1
    /\ \A i \in 1..Len(last.calls) : last.calls[i].api \in RemoteOperations

\* A Delete whose organization delete failed with a retryable error and
\* that returned after this one call.
C25_Witness ==
    /\ last.op = "Delete"
    /\ OrgDeleteFailed
    /\ IsRetryableError(last.calls[1].err)
    /\ Len(last.calls) = 1
    /\ last.ret.err # nil

\* C29: within one invocation the credential Put is the second call, issued
\* after an organization create that returned success, and the credential
\* delete is the second call, issued after an organization delete that
\* returned success or NotFound.
C29_SequentialSteps ==
    /\ \A i \in CallsTo("PutSecret") :
          /\ last.op = "Create"
          /\ i = 2
          /\ last.calls[1].api = "CreateOrganization"
          /\ last.calls[1].err = nil
    /\ \A i \in CallsTo("DeleteSecret") :
          /\ last.op = "Delete"
          /\ i = 2
          /\ last.calls[1].api = "DeleteOrganization"
          /\ last.calls[1].err = nil \/ IsNotFoundError(last.calls[1].err)

\* A Delete whose organization delete was answered NotFound and that then
\* issued the credential delete.
C29_Witness ==
    /\ last.op = "Delete"
    /\ Len(last.calls) = 2
    /\ IsNotFoundError(last.calls[1].err)
    /\ last.calls[2].api = "DeleteSecret"

\* The calls of the last invocation to the credential store.
SecretCalls ==
    CallsTo("PutSecret") \cup CallsTo("DescribeSecret") \cup CallsTo("DeleteSecret")

\* The spec of the resource supplies an explicit, non-empty key name.
ExplicitName(r) == r.SecretName # NilString /\ r.SecretName # ""

C27_NameStability ==
    /\ \A i \in SecretCalls :
          last.pre.StatusSecretName # ""
              => last.calls[i].arg = last.pre.StatusSecretName
    /\ (last.op = "Create" /\ last.ret.err = nil)
          => /\ cr.StatusSecretName = last.calls[2].arg
             /\ cr.StatusSecretName \in DOMAIN secrets
    /\ Cardinality(DOMAIN secrets) <= 1

\* A Delete removed the secret under the key the status had recorded.
C27_Witness ==
    /\ last.op = "Delete"
    /\ Len(last.calls) = 2
    /\ last.calls[2].api = "DeleteSecret"
    /\ last.calls[2].err = nil
    /\ last.pre.StatusSecretName = last.calls[2].arg
    /\ last.calls[2].arg \notin DOMAIN secrets

\* ------------------------------------------------------------------------
\* Properties of two resources reconciled side by side (PairSpec).  They
\* read the record of the last invocation (last), the two resources (cr,
\* peer) and the remote systems before and after it (before, orgs, secrets).

\* The resource the last invocation was not run for.
Other == IF last.pre.Name = cr.Name THEN peer ELSE cr

\* The last invocation was a Create or a Delete for one of the resources.
MutationRan == last.op \in {"Create", "Delete"}

\* What belongs to resource r is as it was before the last invocation: its
\* organization still exists and the record under the key its status names
\* is still stored with the same content.
Preserved(r) ==
    /\ r.ExternalName \in before.orgs => r.ExternalName \in orgs
    /\ r.StatusSecretName \in DOMAIN before.secrets
          => /\ r.StatusSecretName \in DOMAIN secrets
             /\ secrets[r.StatusSecretName] = before.secrets[r.StatusSecretName]

\* The two resources resolve to different keys of the credential store:
\* different explicit names, or one or both without an explicit name and
\* declared names that differ from each other and from the explicit name.
DistinctKeys ==
    LET key(r) == IF ExplicitName(r) THEN r.SecretName ELSE r.Name
    IN key(cr) # key(peer)

\* C28 as stated: under every interleaving of the invocations for two
\* resources, a Create or Delete for one of them leaves the organization and
\* the credential record of the other as they were.
C28_NoInterference_AsStated ==
    MutationRan => Preserved(Other)

\* C28: under every interleaving of the invocations for two resources whose
\* resolved credential keys differ, a Create or Delete for one of them
\* leaves the organization and the credential record of the other as they
\* were, and deletes no organization but its own.
C28_NoInterference ==
    (MutationRan /\ DistinctKeys)
        => /\ Preserved(Other)
           /\ \A i \in CallsTo("DeleteOrganization") :
                 last.calls[i].arg = last.pre.ExternalName
           /\ \A i \in SecretCalls :
                 last.calls[i].arg # Other.StatusSecretName

\* A Delete for one resource removed its organization and its record while
\* the other resource's organization and record, under another key, stayed.
C28_Witness ==
    /\ last.op = "Delete"
    /\ DistinctKeys
    /\ Len(last.calls) = 2
    /\ last.calls[1].err = nil
    /\ last.calls[2].err = nil
    /\ Other.ExternalName \in orgs
    /\ Other.StatusSecretName \in DOMAIN secrets
    /\ last.pre.StatusSecretName \in DOMAIN before.secrets
    /\ last.pre.StatusSecretName \notin DOMAIN secrets

\* ------------------------------------------------------------------------
\* Further properties of the Atlas service client (ClientSpec).

\* C31: VerifyOrganizationDeletion returns nil exactly when it sent its Get
\* and makeRequest classified the answer NotFound; with an empty identifier
\* it returns an error without sending a request, when the Get succeeds it
\* returns the "still exists" error, and when the Get fails otherwise it
\* returns that failure.
C31_VerifyDeletion ==
    req.op = "VerifyOrganizationDeletion"
        => /\ req.err = nil <=> (req.sent /\ KindOf(req.raw) = "NotFound")
           /\ req.args[1] = "" => (~req.sent /\ req.err # nil)
           /\ (req.sent /\ req.raw = nil)
                 => req.err = NewError("organization still exists")
           /\ (req.sent /\ req.raw # nil /\ KindOf(req.raw) # "NotFound")
                 => [req.err EXCEPT !.wraps = <<>>] = [req.raw EXCEPT !.wraps = <<>>]

\* The organization was still there: Atlas answered the Get with 200.
C31_Witness ==
    /\ req.op = "VerifyOrganizationDeletion"
    /\ req.resp = HTTP(200, TRUE)
    /\ req.err = NewError("organization still exists")

\* ------------------------------------------------------------------------
\* Properties of Client.GetOrganization (AtlasClientSpec).

\* C32: with organization credentials and a 200 answer whose body is an
\* organization document, Client.GetOrganization returns the name and the
\* isDeleted value of that document and no error; without organization
\* credentials it returns an error and an empty response without sending a
\* request.
C32_GetOrganization ==
    req.op = "Client.GetOrganization"
        => /\ (/\ req.hasCredentials
               /\ ~req.resp.transport
               /\ req.resp.status = 200
               /\ req.resp.parsable)
                 => /\ req.org.Name = req.doc.name
                    /\ req.org.IsDeleted = req.doc.isDeleted
                    /\ req.err = nil
           /\ ~req.hasCredentials
                 => /\ req.err # nil
                    /\ ~req.sent
                    /\ req.org = EmptyOrgResponse

\* A 200 answer carrying a deleted organization was decoded.
C32_Witness ==
    /\ req.op = "Client.GetOrganization"
    /\ req.hasCredentials
    /\ req.resp = HTTP(200, TRUE)
    /\ req.org = [IsDeleted |-> TRUE, Name |-> "old-name"]
    /\ req.err = nil

\* C38: Client.GetOrganization returns a non-nil error for every response
\* whose status is not 200, a 404 included.
C38_GetOrganizationErrors ==
    (/\ req.op = "Client.GetOrganization"
     /\ req.hasCredentials
     /\ ~req.resp.transport
     /\ req.resp.status # 200)
        => req.err # nil

\* ------------------------------------------------------------------------
\* The protocol state Removed: deletion was requested, a Delete has confirmed
\* the organization gone and taken the token off, and the organization is
\* absent from Atlas.
Removed(r) ==
    /\ r.DeletionTimestamp
    /\ r.ExternalName # ""
    /\ r.ExternalName \notin orgs
    /\ Token \notin r.Finalizers
    /\ r.Synced = "ReconcileSuccess"

\* C33: once the protocol has reached Removed it stays there: an Observe or
\* a Delete invoked in Removed leaves the finalizer token absent and issues
\* no remote delete call, and the Observe reports exists=false.
C33_RemovedIsStable ==
    (last.op \in {"Observe", "Delete"} /\ Removed(last.pre))
        => /\ Token \notin cr.Finalizers
           /\ ~RemoteDeleteIssued
           /\ (last.op = "Observe" => ~last.ret.ResourceExists)

\* C35: an Observe of a resource marked for deletion with a non-empty
\* external name returns exists=true and no error, issues no remote call,
\* sets the Deleting condition and leaves the secret name and secret ARN of
\* the status as they were, whether or not the organization is still in
\* Atlas.
C35_ObserveWhileDeleting ==
    (last.op = "Observe" /\ last.pre.DeletionTimestamp /\ last.pre.ExternalName # "")
        => /\ last.ret.ResourceExists
           /\ last.ret.err = nil
           /\ last.calls = <<>>
           /\ cr.Ready = "Deleting"
           /\ cr.StatusSecretName = last.pre.StatusSecretName
           /\ cr.SecretARN = last.pre.SecretARN

\* An Observe of a resource marked for deletion whose organization is gone
\* from Atlas and whose secret is gone from Secrets Manager, while the status
\* still names the secret.
C35_Witness ==
    /\ last.op = "Observe"
    /\ last.pre.DeletionTimestamp
    /\ last.pre.ExternalName # ""
    /\ last.pre.ExternalName \notin orgs
    /\ last.pre.StatusSecretName # ""
    /\ last.pre.StatusSecretName \notin DOMAIN secrets
    /\ cr.Ready = "Deleting"

\* C36: a Delete of a resource with an empty external name returns success,
\* issues no remote call and leaves the finalizers, and every other field of
\* the resource, as they were.
C36_DeleteWithoutExternalName ==
    (last.op = "Delete" /\ last.pre.ExternalName = "")
        => /\ last.ret.err = nil
           /\ last.calls = <<>>
           /\ cr.Finalizers = last.pre.Finalizers
           /\ Written(cr) = Written(last.pre)

\* A Delete of a resource marked for deletion that was never created, after
\* a Create whose organization request failed.
C36_Witness ==
    /\ last.op = "Delete"
    /\ last.pre.ExternalName = ""
    /\ last.pre.DeletionTimestamp
    /\ Token \notin cr.Finalizers
    /\ last.ret.err = nil

\* ------------------------------------------------------------------------
\* The last invocation was a Create that reached its PutSecret call.
CreatePut == last.op = "Create" /\ Len(last.calls) = 2

\* C37: PutSecret is an upsert.  When it returns no error the store holds,
\* under the name, the key pair it was given and the ARN returned is the
\* ARN of that name; a secret that was already there keeps its tags and
\* only its value is replaced; every other secret is as it was.  When it
\* returns an error the store is as it was.
C37_PutIsUpsert ==
    CreatePut =>
        LET name == last.calls[2].arg
            keys == APIKeyPair(GetExternalName(IF last.pre.Name = cr.Name
                                               THEN cr ELSE peer))
        IN IF last.calls[2].err = nil
           THEN /\ DOMAIN secrets = DOMAIN before.secrets \cup {name}
                /\ secrets[name].SecretString = keys
                /\ last.ret.err = nil
                /\ last.ret.ConnectionDetails.secretARN = ARN(name)
                /\ name \in DOMAIN before.secrets
                      => secrets[name].OrgID = before.secrets[name].OrgID
                /\ \A n \in DOMAIN before.secrets \ {name} :
                      secrets[n] = before.secrets[n]
           ELSE secrets = before.secrets

\* A PutSecret under a name that already held the key pair of another
\* organization has replaced the value.
C37_Witness ==
    /\ CreatePut
    /\ last.calls[2].err = nil
    /\ last.calls[2].arg \in DOMAIN before.secrets
    /\ before.secrets[last.calls[2].arg].SecretString
          # secrets[last.calls[2].arg].SecretString

\* ------------------------------------------------------------------------
\* The lambda has served the status request of the last Observe.
StatusServed == Sendable(svcClient) /\ ~req.resp.transport

\* The lambda has answered that the endpoint does not exist: an error
\* document with the code InvalidVpcEndpointId.NotFound, or a 200 response
\* with an empty list of endpoints.
StatusNotFound ==
    /\ StatusServed
    /\ req.resp.body.json
    /\ \/ req.resp.status # 200 /\ req.resp.body.Error.Code = errorCodeNotFound
       \/ req.resp.status = 200 /\ req.resp.body.VpcEndpoints = <<>>

\* The lambda has answered with the state of the endpoint.
StatusFound ==
    /\ StatusServed
    /\ req.resp.status = 200
    /\ req.resp.body.json
    /\ req.resp.body.VpcEndpoints # <<>>

\* C39: an Observe of a VPCEndpoint with an empty external name reports
\* exists=false without a remote call; when the lookup is answered with
\* not-found it reports exists=false and no error; when the lookup fails
\* otherwise it returns an error; when the lookup finds the endpoint it
\* reports exists=true and upToDate=true, and the Ready condition is
\* Available exactly when the state found is "available".
C39_VpcObserve ==
    last.op = "Observe" =>
        IF last.pre.ExternalName = ""
        THEN ~last.ret.ResourceExists /\ last.ret.err = nil /\ last.calls = <<>>
        ELSE IF StatusNotFound
        THEN ~last.ret.ResourceExists /\ last.ret.err = nil
        ELSE IF ~StatusFound
        THEN last.ret.err # nil
        ELSE /\ last.ret.ResourceExists
             /\ last.ret.ResourceUpToDate
             /\ last.ret.err = nil
             /\ vpce.State = req.resp.body.VpcEndpoints[1].State
             /\ vpce.Ready = "Available" <=> vpce.State = "available"

\* An Observe has found the endpoint in a state other than "available"
\* after an earlier Observe had found it available.
C39_Witness ==
    /\ last.op = "Observe"
    /\ last.pre.Ready = "Available"
    /\ StatusFound
    /\ vpce.State = "rejected"
    /\ vpce.Ready = "Unavailable"
    /\ last.ret.ResourceExists

\* C40: a VPCEndpoint marked for deletion sees a Delete return success at
\* some later point, while the control plane keeps calling Delete.
C40_VpcDeleteEventuallySucceeds ==
    [](vpce.DeletionTimestamp => <>(last.op = "Delete" /\ last.ret.err = nil))

\* ------------------------------------------------------------------------
\* Both overlapping Create invocations have returned success.
BothCreated ==
    \A i \in Invocations : flight[i].pc = "returned" /\ flight[i].ret.err = nil

\* C34: after two overlapping Create invocations for the same resource have
\* both returned success, the secret under the resource's secret name holds
\* the key pair of the organization recorded as external name, and the key
\* pair of each organization the two have created is held by some secret.
C34_OverlappingCreates ==
    BothCreated =>
        /\ finalSecretName(cr) \in DOMAIN secrets
        /\ secrets[finalSecretName(cr)].SecretString = APIKeyPair(GetExternalName(cr))
        /\ \A i \in Invocations :
              \E n \in DOMAIN secrets :
                  secrets[n].SecretString = APIKeyPair(flight[i].id)

====
